---- MODULE Spec2Model ----
(***************************************************************************)
(* Izhikevich 2003 neuron (src/src/lib.rs): the state of                   *)
(* Izhikevich2003Neuron and its PluginRuntime handlers set_config_value,   *)
(* set_input_value and process_tick.                                       *)
(*                                                                         *)
(* Numbers.  The fields are f64.  A value is modelled as a signed decimal  *)
(* number counted in units of 1/Scale, in the range -MaxFinite ..          *)
(* MaxFinite, plus the three IEEE specials PosInf, NegInf and NaN.  As in  *)
(* f64 the spacing of the representable values grows with their magnitude: *)
(* below ExactBelow every multiple of 1/Scale is a value, from ExactBelow  *)
(* on only the multiples of Spacing are (f64: spacing 1.0 from 2^52 on).   *)
(* Every arithmetic operation rounds its exact result to the nearest value *)
(* (ties to the even multiple) and overflows to an infinity beyond         *)
(* MaxFinite, which plays the role of f64::MAX; inf - inf and 0 * inf are  *)
(* NaN and every comparison with NaN is false.  The expressions keep the   *)
(* source's order of evaluation.                                           *)
(***************************************************************************)
EXTENDS Integers, Sequences, FiniteSets

VARIABLES
    i_syn, v, u, a, b, c, d, v_mv,   \* the fields of Izhikevich2003Neuron
    pc,                              \* "idle"; in process_tick "loop" (at the while
                                     \* test) or "step" (dt_ms taken, update pending)
    remaining_ms,                    \* process_tick's local
    dt_ms,                           \* process_tick's local, last sub-step
    op,                              \* the call the host made last
    nops,                            \* number of calls made so far
    steps,                           \* sub-steps run by the current tick (the first MaxSteps)
    elapsed_ms,                      \* remaining_ms as first computed
    consumed_ms,                     \* sum of dt_ms over those sub-steps
    lastInput,                       \* argument of the last set_input_value("i_syn", _)
    run                              \* the consecutive ticks run since the last other call

fields == <<i_syn, v, u, a, b, c, d, v_mv>>
vars == <<i_syn, v, u, a, b, c, d, v_mv, pc, remaining_ms, dt_ms, op, nops,
          steps, elapsed_ms, consumed_ms, lastInput, run>>

-----------------------------------------------------------------------------
(* f64 *)

Scale == 10000
MaxFinite == 100000000
PosInf == MaxFinite + 1
NegInf == -(MaxFinite + 1)
NaN == MaxFinite + 2

\* The decimal literal n/q as a value (exact for every literal used)
Dec(n, q) == (n * Scale) \div q

ExactBelow == Dec(1000, 1)
Spacing == Dec(1, 1)

IsNaN(x) == x = NaN
IsFinite(x) == x >= -MaxFinite /\ x <= MaxFinite

Abs(n) == IF n < 0 THEN -n ELSE n
Sign(n) == IF n < 0 THEN -1 ELSE IF n > 0 THEN 1 ELSE 0

Overflow(n) == IF n > MaxFinite THEN PosInf ELSE IF n < -MaxFinite THEN NegInf ELSE n

\* A magnitude rounded to the nearest representable one, ties to even
RoundMag(n) ==
    IF n < ExactBelow THEN n
    ELSE LET q == n \div Spacing
             r == n % Spacing
         IN  IF 2 * r > Spacing \/ (2 * r = Spacing /\ q % 2 = 1)
             THEN (q + 1) * Spacing
             ELSE q * Spacing

\* The exact result n of an operation as the f64 result
Round(n) == Overflow(IF n < 0 THEN -RoundMag(-n) ELSE RoundMag(n))

Neg(x) == IF IsNaN(x) THEN NaN ELSE -x

Add(x, y) ==
    IF IsNaN(x) \/ IsNaN(y) THEN NaN
    ELSE IF ~IsFinite(x) THEN (IF ~IsFinite(y) /\ y # x THEN NaN ELSE x)
    ELSE IF ~IsFinite(y) THEN y
    ELSE Round(x + y)

\* |x| * |y| / Scale for finite x, y, rounded; PosInf on overflow.
\* The product is formed from the high and low parts so that no intermediate
\* exceeds the integer range.
MulMag(x, y) ==
    LET xh == x \div Scale
        xl == x % Scale
        yh == y \div Scale
        yl == y % Scale
    IN  IF xh * yh > MaxFinite \div Scale THEN PosInf
        ELSE Round(xh * yh * Scale + xh * yl + xl * yh
                   + (xl * yl + Scale \div 2) \div Scale)

Mul(x, y) ==
    IF IsNaN(x) \/ IsNaN(y) THEN NaN
    ELSE IF ~IsFinite(x) \/ ~IsFinite(y)
         THEN (IF x = 0 \/ y = 0 THEN NaN
               ELSE IF Sign(x) * Sign(y) > 0 THEN PosInf ELSE NegInf)
    ELSE IF Sign(x) * Sign(y) < 0 THEN -MulMag(Abs(x), Abs(y))
    ELSE MulMag(Abs(x), Abs(y))

\* f64::min: the other operand when one is NaN
Min(x, y) == IF IsNaN(x) THEN y ELSE IF IsNaN(y) THEN x ELSE IF x < y THEN x ELSE y

\* The f64 operators -x, x + y, x - y, x * y, x.min(y): the operation on the
\* operands' values, each operand being evaluated once
FNeg(x) == CHOOSE r \in {Neg(p) : p \in {x}} : TRUE
FAdd(x, y) == CHOOSE r \in {Add(p, q) : p \in {x}, q \in {y}} : TRUE
FSub(x, y) == FAdd(x, FNeg(y))
FMul(x, y) == CHOOSE r \in {Mul(p, q) : p \in {x}, q \in {y}} : TRUE
FMin(x, y) == CHOOSE r \in {Min(p, q) : p \in {x}, q \in {y}} : TRUE

FGt(x, y) == ~IsNaN(x) /\ ~IsNaN(y) /\ x > y
FGe(x, y) == ~IsNaN(x) /\ ~IsNaN(y) /\ x >= y
FLt(x, y) == ~IsNaN(x) /\ ~IsNaN(y) /\ x < y
FLe(x, y) == ~IsNaN(x) /\ ~IsNaN(y) /\ x <= y

-----------------------------------------------------------------------------
(* Bounds and the host's inputs *)

\* calls the host makes in a behaviour
MaxOps == 3
\* sub-steps of a tick that steps and consumed_ms count
MaxSteps == 120

\* serde_json values handed to set_config_value: a JSON number is always a
\* finite f64 (a non-finite f64 converts to null), or the value is no number.
JsonNum(x) == [kind |-> "num", n |-> x]
JsonNull == [kind |-> "null", n |-> 0]
JsonStr == [kind |-> "str", n |-> 0]

ConfigKeys == {"v", "u", "a", "b", "c", "d", "w"}
ConfigValues == {JsonNum(Dec(40, 1)), JsonNum(Dec(-50, 1)), JsonNull, JsonStr}

InputKeys == {"i_syn", "x"}
InputValues == {0, Dec(20, 1), NaN, NegInf}

\* period_seconds: 0, -1, NaN, +inf, 0.3 ms, 0.5 ms, 0.7 ms, 1 ms
Elapsed == {0, Dec(-1, 1), NaN, PosInf,
            Dec(3, 10000), Dec(5, 10000), Dec(7, 10000), Dec(1, 1000)}

\* period_seconds: 0.3 ms, 50 ms, 1.001 s, 1.002 s and the largest finite value
ElapsedLong == {Dec(3, 10000), Dec(5, 100), Dec(1001, 1000), Dec(1002, 1000), MaxFinite}

NoInput == MaxFinite + 3

-----------------------------------------------------------------------------
(* Default *)

Init ==
    /\ i_syn = 0
    /\ v = Dec(-65, 1)
    /\ u = Dec(-13, 1)
    /\ a = Dec(2, 100)
    /\ b = Dec(2, 10)
    /\ c = Dec(-65, 1)
    /\ d = Dec(8, 1)
    /\ v_mv = Dec(-65, 1)
    /\ pc = "idle"
    /\ remaining_ms = 0
    /\ dt_ms = 0
    /\ op = [name |-> "new", key |-> "", kind |-> "num", n |-> 0]
    /\ nops = 0
    /\ steps = 0
    /\ elapsed_ms = 0
    /\ consumed_ms = 0
    /\ lastInput = NoInput
    /\ run = << >>

-----------------------------------------------------------------------------
(* set_config_value *)

\* value.as_f64() is Some only for a JSON number
IsNumber(value) == value.kind = "num"

\* Variant: value.as_f64().unwrap_or(0.0), written whatever the value is
ConfigFieldDefaulting(key, value, name, old) ==
    IF key = name THEN value.n ELSE old

\* The field `name` after set_config_value(key, value), `old` being its value before
ConfigField(key, value, name, old) ==
    IF IsNumber(value) /\ key = name THEN value.n ELSE old

SetConfig(key, value) ==
    /\ pc = "idle"
    /\ nops < MaxOps
    /\ v' = ConfigField(key, value, "v", v)
    /\ u' = ConfigField(key, value, "u", u)
    /\ a' = ConfigField(key, value, "a", a)
    /\ b' = ConfigField(key, value, "b", b)
    /\ c' = ConfigField(key, value, "c", c)
    /\ d' = ConfigField(key, value, "d", d)
    /\ op' = [name |-> "set_config_value", key |-> key, kind |-> value.kind, n |-> value.n]
    /\ nops' = nops + 1
    /\ run' = << >>
    /\ UNCHANGED <<i_syn, v_mv, pc, remaining_ms, dt_ms, steps, elapsed_ms,
                   consumed_ms, lastInput>>

-----------------------------------------------------------------------------
(* set_input_value *)

\* Variant: the input stored as given
SanitizeUnchecked(x) == x

\* if v.is_finite() { v } else { 0.0 }
Sanitize(x) == IF IsFinite(x) THEN x ELSE 0

SetInput(key, x) ==
    /\ pc = "idle"
    /\ nops < MaxOps
    /\ i_syn' = IF key = "i_syn" THEN Sanitize(x) ELSE i_syn
    /\ lastInput' = IF key = "i_syn" THEN x ELSE lastInput
    /\ op' = [name |-> "set_input_value", key |-> key, kind |-> "num", n |-> x]
    /\ nops' = nops + 1
    /\ run' = << >>
    /\ UNCHANGED <<v, u, a, b, c, d, v_mv, pc, remaining_ms, dt_ms, steps,
                   elapsed_ms, consumed_ms>>

-----------------------------------------------------------------------------
(* process_tick *)

\* Variant: a step cap of 1 ms
MaxStepOneMs == Dec(1, 1)

\* const MAX_STEP_MS: f64 = 0.5
MAX_STEP_MS == Dec(1, 2)

\* the 30.0 of `self.v >= 30.0`
SpikeThreshold == Dec(30, 1)

\* Variant: `<` for `<=`
SkipsOnlyNegative(T) == ~IsFinite(T) \/ FLt(T, 0)

\* !period_seconds.is_finite() || period_seconds <= 0.0
Skips(T) == ~IsFinite(T) \/ FLe(T, 0)

\* period_seconds * 1000.0
ToMs(T) == FMul(T, Dec(1000, 1))

\* Variant: the loop left before a last, shorter step
LoopCondDropsPartial(rem) == FGt(rem, MAX_STEP_MS)

\* while remaining_ms > 0.0
LoopCond(rem) == FGt(rem, 0)

\* remaining_ms.min(MAX_STEP_MS)
StepSize(rem) == FMin(rem, MAX_STEP_MS)

\* 0.04 * v0 * v0 + 5.0 * v0 + 140.0 - u0 + self.i_syn
Dv(v0, u0) ==
    FAdd(FSub(FAdd(FAdd(FMul(FMul(Dec(4, 100), v0), v0), FMul(Dec(5, 1), v0)),
                   Dec(140, 1)),
              u0),
         i_syn)

\* Variant: du from the updated potential vn
DuSequential(v0, u0, vn) == FMul(a, FSub(FMul(b, vn), u0))

\* self.a * (self.b * v0 - u0); vn is the updated potential, which du does not read
Du(v0, u0, vn) == FMul(a, FSub(FMul(b, v0), u0))

\* Variant: no reset
CommitNoReset(vn, un) == [v |-> vn, u |-> un, spiked |-> FALSE]

\* if self.v >= 30.0 { self.v = self.c; self.u += self.d; }
Commit(vn, un) ==
    IF FGe(vn, SpikeThreshold)
    THEN [v |-> c, u |-> FAdd(un, d), spiked |-> TRUE]
    ELSE [v |-> vn, u |-> un, spiked |-> FALSE]

\* One iteration's update of (v, u) from the pre-step values, with step dt
StepV(v0, u0, dt) == FAdd(v0, FMul(dt, Dv(v0, u0)))
StepU(v0, u0, dt, vn) == FAdd(u0, FMul(dt, Du(v0, u0, vn)))
CommitStep(v0, u0, dt, vn) ==
    CHOOSE r \in {Commit(vn, un) : un \in {StepU(v0, u0, dt, vn)}} : TRUE
EulerStep(v0, u0, dt) ==
    CHOOSE r \in {CommitStep(v0, u0, dt, vn) : vn \in {StepV(v0, u0, dt)}} : TRUE

\* The whole loop as a function: (v, u) after the loop has consumed rem
\* from (v0, u0); spiked tells whether any iteration took the reset.
RECURSIVE Tick(_, _, _)
Tick(v0, u0, rem) ==
    IF ~LoopCond(rem) THEN [v |-> v0, u |-> u0, spiked |-> FALSE]
    ELSE LET dt == StepSize(rem)
             s == EulerStep(v0, u0, dt)
             r == Tick(s.v, s.u, FSub(rem, dt))
         IN  [v |-> r.v, u |-> r.u, spiked |-> s.spiked \/ r.spiked]

Bump(n) == IF n < MaxSteps THEN n + 1 ELSE n

\* The guard's early return
IntegrateSkip(T) ==
    /\ pc = "idle"
    /\ nops < MaxOps
    /\ Skips(T)
    /\ op' = [name |-> "process_tick", key |-> "", kind |-> "num", n |-> T]
    /\ nops' = nops + 1
    /\ run' = << >>
    /\ UNCHANGED <<i_syn, v, u, a, b, c, d, v_mv, pc, remaining_ms, dt_ms, steps,
                   elapsed_ms, consumed_ms, lastInput>>

\* Entry to the loop
IntegrateBegin(T) ==
    /\ pc = "idle"
    /\ nops < MaxOps
    /\ ~Skips(T)
    /\ remaining_ms' = ToMs(T)
    /\ elapsed_ms' = ToMs(T)
    /\ pc' = "loop"
    /\ steps' = 0
    /\ consumed_ms' = 0
    /\ dt_ms' = 0
    /\ op' = [name |-> "process_tick", key |-> "", kind |-> "num", n |-> T]
    /\ nops' = nops + 1
    /\ run' = (IF Len(run) = 2 THEN Tail(run) ELSE run)
              \o <<[v0 |-> v, u0 |-> u, T |-> T, spiked |-> FALSE]>>
    /\ UNCHANGED <<i_syn, v, u, a, b, c, d, v_mv, lastInput>>

\* Head of an iteration: the test, dt_ms and the decrement of remaining_ms
TakeStep ==
    /\ pc = "loop"
    /\ LoopCond(remaining_ms)
    /\ \E dt \in {StepSize(remaining_ms)} :
           /\ dt_ms' = dt
           /\ remaining_ms' = FSub(remaining_ms, dt)
    /\ pc' = "step"
    /\ UNCHANGED <<i_syn, v, u, a, b, c, d, v_mv, op, nops, steps, elapsed_ms,
                   consumed_ms, lastInput, run>>

\* Rest of the iteration: the Euler update of (v, u) and the reset
EulerUpdate ==
    /\ pc = "step"
    /\ \E s \in {EulerStep(v, u, dt_ms)} :
           /\ v' = s.v
           /\ u' = s.u
           /\ run' = [run EXCEPT ![Len(run)].spiked = @ \/ s.spiked]
    /\ steps' = Bump(steps)
    /\ consumed_ms' = IF steps < MaxSteps THEN consumed_ms + dt_ms ELSE consumed_ms
    /\ pc' = "loop"
    /\ UNCHANGED <<i_syn, a, b, c, d, v_mv, remaining_ms, dt_ms, op, nops, elapsed_ms,
                   lastInput>>

\* Variant: loop exit without the refresh of v_mv
IntegrateEndNoRefresh ==
    /\ pc = "loop"
    /\ ~LoopCond(remaining_ms)
    /\ pc' = "idle"
    /\ UNCHANGED <<i_syn, v, u, a, b, c, d, v_mv, remaining_ms, dt_ms, op, nops, steps,
                   elapsed_ms, consumed_ms, lastInput, run>>

\* Loop exit: self.v_mv = self.v
IntegrateEnd ==
    /\ pc = "loop"
    /\ ~LoopCond(remaining_ms)
    /\ v_mv' = v
    /\ pc' = "idle"
    /\ UNCHANGED <<i_syn, v, u, a, b, c, d, remaining_ms, dt_ms, op, nops, steps,
                   elapsed_ms, consumed_ms, lastInput, run>>

-----------------------------------------------------------------------------
(* Specifications *)

Next ==
    \/ \E key \in ConfigKeys, value \in ConfigValues : SetConfig(key, value)
    \/ \E key \in InputKeys, x \in InputValues : SetInput(key, x)
    \/ \E T \in Elapsed : IntegrateSkip(T)
    \/ \E T \in Elapsed : IntegrateBegin(T)
    \/ TakeStep
    \/ EulerUpdate
    \/ IntegrateEnd

Spec == Init /\ [][Next]_vars

\* Long ticks from the default state.  process_tick is straight-line code
\* that the host runs to completion, so each of its steps is taken once enabled.
NextLong ==
    \/ \E T \in ElapsedLong : IntegrateBegin(T)
    \/ TakeStep
    \/ EulerUpdate
    \/ IntegrateEnd

SpecLong == Init /\ [][NextLong]_vars

FairSpec ==
    Init /\ [][NextLong]_vars
         /\ WF_vars(TakeStep) /\ WF_vars(EulerUpdate) /\ WF_vars(IntegrateEnd)

-----------------------------------------------------------------------------
(* Claims *)

\* The last call, and whether process_tick's argument is degenerate
\* (zero, negative, NaN or infinite)
Degenerate(T) == ~IsFinite(T) \/ T <= 0
IsTick == op.name = "process_tick"
TickRan == IsTick /\ ~Degenerate(op.n)
TickSkipped == IsTick /\ Degenerate(op.n)
Returned == pc = "idle"
BetweenSubSteps == pc = "loop" /\ steps >= 1
Spiked == Len(run) >= 1 /\ run[Len(run)].spiked
HalfMs == Dec(1, 2)
Threshold == Dec(30, 1)

\* C1 as stated, of the ticks that pass the guard: whenever process_tick has
\* returned, and between two sub-steps of a tick, v < 30.0, whatever finite
\* a, b, c, d were configured.
C1_BelowThresholdAlways ==
    ((Returned /\ TickRan) \/ BetweenSubSteps) => FLt(v, Threshold)

\* C1, amended: whenever a process_tick that passed the guard has returned,
\* and between two sub-steps of a tick, v is not at or above 30.0 provided
\* the configured c is below 30.0.
C1_BelowThresholdAfterTick ==
    (((Returned /\ TickRan) \/ BetweenSubSteps) /\ FLt(c, Threshold))
        => ~FGe(v, Threshold)

\* a tick that took the reset has returned, with c below the threshold
C1_Witness == Returned /\ TickRan /\ Spiked /\ FLt(c, Threshold)

\* C2: process_tick with a zero, negative, NaN or infinite period returns at
\* once and leaves i_syn, v, u, a, b, c, d and v_mv as they were.
C2_DegenerateTickIsNoOp ==
    [][(nops' = nops + 1 /\ op'.name = "process_tick" /\ Degenerate(op'.n))
        => (fields' = fields /\ pc' = "idle")]_vars

\* a degenerate tick has returned in a state where v_mv lags behind v
C2_Witness == Returned /\ TickSkipped /\ v # v_mv

\* The two ticks last run back to back, and the one tick over the sum of
\* their periods from the state the first of them started in
TwoTicks == Returned /\ TickRan /\ Len(run) = 2
OneTick == Tick(run[1].v0, run[1].u0, ToMs(FAdd(run[1].T, run[2].T)))
NoCrossing == ~run[1].spiked /\ ~run[2].spiked /\ ~OneTick.spiked
SameResult == v = OneTick.v /\ u = OneTick.u
WholeSteps(ms) == IsFinite(ms) /\ ms % HalfMs = 0

ClaimDv == FAdd(FSub(FAdd(FAdd(FMul(FMul(Dec(4, 100), v), v), FMul(Dec(5, 1), v)),
                          Dec(140, 1)), u), i_syn)
ClaimVNew == FAdd(v, FMul(dt_ms, ClaimDv))
ClaimUNew == FAdd(u, FMul(dt_ms, FMul(a, FSub(FMul(b, v), u))))

\* C4: a sub-step with step dt commits v = c, u = u_new + d when
\* v_new >= 30.0 and v = v_new, u = u_new otherwise, v_new and u_new both
\* being computed from the pre-step v and u.
C4_SubStepUpdate ==
    [][(pc = "step" /\ pc' = "loop")
        => IF FGe(ClaimVNew, Threshold)
           THEN v' = c /\ u' = FAdd(ClaimUNew, d)
           ELSE v' = ClaimVNew /\ u' = ClaimUNew]_vars

\* a second sub-step has run in a tick that took the reset
C4_Witness == pc = "loop" /\ steps = 2 /\ Spiked

\* C5: v_mv is written only when a tick that passed the guard returns, and
\* then with the final v; no other step changes it.
C5_OutputCache ==
    [][IF pc # "idle" /\ pc' = "idle"
       THEN v_mv' = v /\ v' = v
       ELSE v_mv' = v_mv]_vars

\* a tick has returned with a refreshed output
C5_Witness == Returned /\ TickRan /\ v_mv = v /\ v_mv # Dec(-65, 1)

\* C6: i_syn is finite and is the argument of the last
\* set_input_value("i_syn", _), or 0.0 if that was not finite or there was none.
C6_InputIsLastSet ==
    /\ IsFinite(i_syn)
    /\ i_syn = (IF lastInput = NoInput \/ ~IsFinite(lastInput) THEN 0 ELSE lastInput)

\* a tick has run to its end on an input set before it
C6_Witness == Returned /\ TickRan /\ lastInput = Dec(20, 1) /\ i_syn = Dec(20, 1)

\* The field named `name` after set_config_value as the claim has it
ClaimField(name, old) ==
    IF op'.kind = "num" /\ op'.key = name THEN op'.n ELSE old

\* C7: set_config_value writes the named field when the key is one of
\* v, u, a, b, c, d and the value a number, and nothing else; no other
\* operation changes a, b, c or d.
C7_ConfigFrame ==
    [][IF nops' = nops + 1 /\ op'.name = "set_config_value"
       THEN /\ v' = ClaimField("v", v)
            /\ u' = ClaimField("u", u)
            /\ a' = ClaimField("a", a)
            /\ b' = ClaimField("b", b)
            /\ c' = ClaimField("c", c)
            /\ d' = ClaimField("d", d)
            /\ i_syn' = i_syn
            /\ v_mv' = v_mv
       ELSE <<a, b, c, d>>' = <<a, b, c, d>>]_vars

\* c has been overwritten after another call
C7_Witness ==
    /\ op.name = "set_config_value"
    /\ op.key = "c"
    /\ op.kind = "num"
    /\ c = Dec(40, 1)
    /\ nops >= 2

\* C8: for every finite positive period_seconds (every tick that passes the
\* guard) process_tick runs to completion: the sub-step loop, once entered,
\* is left again.
C8_TickTerminates == (pc # "idle") ~> (pc = "idle")

\* The defaults scenario: set_input_value("i_syn", 0.0), then
\* process_tick(0.001), on the fresh state
DefaultsScenario == nops = 2 /\ IsTick /\ op.n = Dec(1, 1000) /\ lastInput = 0

\* C9: in the defaults scenario every sub-step is of 0.5 ms, none takes the
\* reset, and the tick returns after two of them with v = v_mv a little
\* below -65.
C9_Defaults ==
    DefaultsScenario =>
        /\ (pc = "step" \/ steps >= 1) => dt_ms = HalfMs
        /\ ~Spiked
        /\ Returned => /\ steps = 2
                       /\ FLt(v, Dec(-65, 1))
                       /\ FGt(v, Dec(-68, 1))
                       /\ v_mv = v

\* the scenario's tick has returned
C9_Witness == DefaultsScenario /\ Returned

\* C10: in a tick, remaining_ms is never negative; a sub-step's dt is in
\* (0, 0.5], and is 0.5 unless it is the last; the steps taken plus what
\* remains are exactly elapsed_ms; and the tick returns with nothing
\* remaining after ceil(elapsed_ms / 0.5) sub-steps.
C10_Partition ==
    /\ FGe(remaining_ms, 0)
    /\ pc = "step" =>
           /\ FGt(dt_ms, 0) /\ FLe(dt_ms, HalfMs)
           /\ FGt(remaining_ms, 0) => dt_ms = HalfMs
           /\ (IsFinite(elapsed_ms) /\ steps < MaxSteps)
                  => consumed_ms + dt_ms + remaining_ms = elapsed_ms
    /\ (pc = "loop" /\ IsFinite(elapsed_ms) /\ steps < MaxSteps)
           => consumed_ms + remaining_ms = elapsed_ms
    /\ (Returned /\ TickRan /\ steps < MaxSteps) =>
           /\ remaining_ms = 0
           /\ consumed_ms = elapsed_ms
           /\ steps = (elapsed_ms + HalfMs - 1) \div HalfMs

====
